---- MODULE Spec2Model ----
(***************************************************************************)
(* A model of outyet.go: a Server polls a URL with HTTP HEAD requests      *)
(* until it answers 200 OK, then sets its yes field under the write side   *)
(* of an RWMutex, while any number of ServeHTTP calls read yes under the   *)
(* read side of the same RWMutex.                                          *)
(***************************************************************************)
EXTENDS Integers, Sequences, FiniteSets, TLC

\* ------------------------------------------------------------------ bounds
MaxPolls == 2
MaxHits == 2

\* ------------------------------------------------------- program constants
StatusOK == 200
DefaultPollPeriod == 5

\* ------------------------------------------------------------ input domains
ServerIds == {1, 2}
\* net/http runs every request in a goroutine of its own: the r-th request
\* is ServeHTTP call r.
Readers == 1..MaxHits
Periods == {-1, 0, DefaultPollPeriod}
URLs == {"tagURL", "%malformed"}
Versions == {"10.0.0.7"}
Statuses == {StatusOK, 204, 404}
ErrMsgs == {"refused", "timeout"}
NoErr == "nil"
NoData == [URL |-> "", Version |-> "", Yes |-> "unset"]
NoResp == [err |-> NoErr, status |-> 0]
Torn == "torn"

\* What http.Head can hand back for a URL: a transport error (always, when
\* the URL does not parse) or a response with a status code.
Responses(u) ==
    {[err |-> e, status |-> 0] : e \in ErrMsgs}
        \cup (IF u = "%malformed" THEN {}
              ELSE {[err |-> NoErr, status |-> c] : c \in Statuses})

VARIABLES
    mainTodo,        \* the NewServer calls the process has still to make
    servers,         \* the Server instances NewServer has returned
    version, url, period,   \* Server fields, per instance
    yes,             \* Server.yes, per instance
    mu,              \* Server.mu, per instance: writer, pending writer, readers
    pollPc,          \* position of each instance's poll goroutine
    lastResp,        \* what http.Head returned to isTagged, until poll has acted on it
    okCount,         \* per instance: HEAD requests answered 200 OK so far
    failCount,       \* per instance: HEAD requests that failed or were answered otherwise
    log,             \* per instance: the calls poll made to isTagged, pollSleep, pollDone
    hitCount, pollCount, pollError, pollErrorCount,   \* the expvar counters
    reads,           \* the loads of yes that ServeHTTP calls have made
    srvPc,           \* position of each ServeHTTP call (idle: the request has not arrived)
    srvOf,           \* the Server a ServeHTTP call runs on
    data             \* the struct ServeHTTP fills under the read lock

vars == <<mainTodo, servers, version, url, period, yes, mu, pollPc, lastResp,
          okCount, failCount, log,
          hitCount, pollCount, pollError, pollErrorCount, reads,
          srvPc, srvOf, data>>

serverFields == <<mainTodo, servers, version, url, period>>
counters == <<hitCount, pollCount, pollError, pollErrorCount>>
pollVars == <<pollPc, lastResp, okCount, failCount, log>>
srvVars == <<reads, srvPc, srvOf, data>>

\* ---------------------------------------------------------------- RWMutex
\* sync.RWMutex: one writer or many readers; a Lock call that is waiting
\* for the readers to leave keeps new RLock calls out.
FreeMutex == [writer |-> FALSE, pending |-> FALSE, readers |-> {}]

\* Mutant of CanRLock: a reader does not wait for the writer.
CanRLockAlways(m) == TRUE

CanRLock(m) == ~m.writer /\ ~m.pending

CanLock(m) == ~m.writer /\ m.readers = {}

\* ------------------------------------------------------------- NewServer
NewServerYes == FALSE

\* The instances the process constructs (main constructs one).
InitServers == {1}

\* The state before main calls NewServer for the instances in todo; the
\* flags give each call its version, url and period.
InitWith(todo) ==
    /\ mainTodo = todo
    /\ servers = {}
    /\ version \in [ServerIds -> Versions]
    /\ url \in [ServerIds -> URLs]
    /\ period \in [ServerIds -> Periods]
    /\ \A s \in ServerIds \ todo :
          url[s] = "tagURL" /\ period[s] = DefaultPollPeriod
    /\ yes = [s \in ServerIds |-> NewServerYes]
    /\ mu = [s \in ServerIds |-> FreeMutex]
    /\ pollPc = [s \in ServerIds |-> "none"]
    /\ lastResp = [s \in ServerIds |-> NoResp]
    /\ okCount = [s \in ServerIds |-> 0]
    /\ failCount = [s \in ServerIds |-> 0]
    /\ log = [s \in ServerIds |-> <<>>]
    /\ hitCount = 0
    /\ pollCount = 0
    /\ pollError = ""
    /\ pollErrorCount = 0
    /\ reads = 0
    /\ srvPc = [r \in Readers |-> "idle"]
    /\ srvOf = [r \in Readers |-> 1]
    /\ data = [r \in Readers |-> NoData]

Init == InitWith(InitServers)

\* Mutant of NewServer: the go statement is missing.
NewServerNoPoll(s) ==
    /\ s \in mainTodo
    /\ mainTodo' = mainTodo \ {s}
    /\ servers' = servers \cup {s}
    /\ UNCHANGED <<version, url, period, yes, mu, pollVars, counters, srvVars>>

\* NewServer(version, url, period): the Server is built, poll is started as
\* a goroutine of its own and the Server is returned.
NewServer(s) ==
    /\ s \in mainTodo
    /\ mainTodo' = mainTodo \ {s}
    /\ servers' = servers \cup {s}
    /\ pollPc' = [pollPc EXCEPT ![s] = "loop"]
    /\ UNCHANGED <<version, url, period, yes, mu, lastResp, okCount, failCount,
                   log, counters, srvVars>>

\* ------------------------------------------------------------------ poll
\* Whether http.Head returned a 200 OK response.
IsOK(resp) == resp.err = NoErr /\ resp.status = StatusOK

\* Mutant of isTagged: any response without a transport error counts.
isTaggedAnyResponse(resp) == resp.err = NoErr

\* Mutant of isTagged: any 2xx status counts.
isTagged2xx(resp) ==
    IF resp.err # NoErr THEN FALSE ELSE resp.status \in 200..299

\* isTagged's result for what http.Head returned.
isTagged(resp) ==
    IF resp.err # NoErr THEN FALSE ELSE resp.status = StatusOK

\* Mutant of AfterProbe: the loop sleeps after every probe.
AfterProbeSleeps(tagged) == "sleep"

\* Mutant of AfterProbe: the loop condition is ignored.
AfterProbeAlways(tagged) == "lock"

\* The loop condition of poll: sleep and retry, or go on to the write.
AfterProbe(tagged) == IF tagged THEN "lock" ELSE "sleep"

\* Mutant of SleepArg: the flag's default instead of the Server's period.
SleepArgDefault(s) == DefaultPollPeriod

\* The duration poll hands to pollSleep.
SleepArg(s) == period[s]

\* Mutant of PollCall: the lock is requested before the probe.
PollCallHoldsLock(s) ==
    /\ pollPc[s] = "loop"
    /\ pollCount < MaxPolls
    /\ pollCount' = pollCount + 1
    /\ log' = [log EXCEPT ![s] = Append(@, <<"probe">>)]
    /\ pollPc' = [pollPc EXCEPT ![s] = "head"]
    /\ mu' = [mu EXCEPT ![s].pending = TRUE]
    /\ UNCHANGED <<serverFields, yes, lastResp, okCount, failCount,
                   hitCount, pollError, pollErrorCount, srvVars>>

\* poll evaluates its loop condition: isTagged is entered, pollCount.Add(1)
\* runs and the HEAD request is sent.
PollCall(s) ==
    /\ pollPc[s] = "loop"
    /\ pollCount < MaxPolls
    /\ pollCount' = pollCount + 1
    /\ log' = [log EXCEPT ![s] = Append(@, <<"probe">>)]
    /\ pollPc' = [pollPc EXCEPT ![s] = "head"]
    /\ UNCHANGED <<serverFields, yes, mu, lastResp, okCount, failCount,
                   hitCount, pollError, pollErrorCount, srvVars>>

\* Mutant of HeadReturns: the transport error is recorded but not counted.
HeadReturnsNoCount(s, resp) ==
    /\ lastResp' = [lastResp EXCEPT ![s] = resp]
    /\ IF IsOK(resp)
          THEN /\ okCount' = [okCount EXCEPT ![s] = @ + 1]
               /\ UNCHANGED failCount
          ELSE /\ failCount' = [failCount EXCEPT ![s] = @ + 1]
               /\ UNCHANGED okCount
    /\ pollError' = IF resp.err # NoErr THEN resp.err ELSE pollError
    /\ UNCHANGED pollErrorCount

\* Mutant of HeadReturns: a response clears the error diagnostics.
HeadReturnsResets(s, resp) ==
    /\ lastResp' = [lastResp EXCEPT ![s] = resp]
    /\ IF IsOK(resp)
          THEN /\ okCount' = [okCount EXCEPT ![s] = @ + 1]
               /\ UNCHANGED failCount
          ELSE /\ failCount' = [failCount EXCEPT ![s] = @ + 1]
               /\ UNCHANGED okCount
    /\ IF resp.err # NoErr
          THEN /\ pollError' = resp.err
               /\ pollErrorCount' = pollErrorCount + 1
          ELSE /\ pollError' = ""
               /\ pollErrorCount' = 0

\* Mutant of HeadReturns: a status other than 200 OK is counted as an error.
HeadReturnsCountsNonOK(s, resp) ==
    /\ lastResp' = [lastResp EXCEPT ![s] = resp]
    /\ IF IsOK(resp)
          THEN /\ okCount' = [okCount EXCEPT ![s] = @ + 1]
               /\ UNCHANGED <<failCount, pollError, pollErrorCount>>
          ELSE /\ failCount' = [failCount EXCEPT ![s] = @ + 1]
               /\ pollError' = IF resp.err # NoErr THEN resp.err ELSE "status"
               /\ pollErrorCount' = pollErrorCount + 1
               /\ UNCHANGED okCount

\* What isTagged does with the result of http.Head: the transport error is
\* logged and counted; okCount and failCount keep the history of results.
HeadReturns(s, resp) ==
    /\ lastResp' = [lastResp EXCEPT ![s] = resp]
    /\ IF IsOK(resp)
          THEN /\ okCount' = [okCount EXCEPT ![s] = @ + 1]
               /\ UNCHANGED failCount
          ELSE /\ failCount' = [failCount EXCEPT ![s] = @ + 1]
               /\ UNCHANGED okCount
    /\ IF resp.err # NoErr
          THEN /\ pollError' = resp.err
               /\ pollErrorCount' = pollErrorCount + 1
          ELSE UNCHANGED <<pollError, pollErrorCount>>

\* Mutant of PollHead: every probe's result is stored in yes and the loop
\* goes on polling.
PollHeadRefresh(s) ==
    /\ pollPc[s] = "head"
    /\ \E resp \in Responses(url[s]) :
          /\ HeadReturns(s, resp)
          /\ yes' = [yes EXCEPT ![s] = isTagged(resp)]
          /\ pollPc' = [pollPc EXCEPT ![s] = "sleep"]
    /\ UNCHANGED <<serverFields, mu, log, hitCount, pollCount, srvVars>>

\* Mutant of PollHead: the probe runs with the lock requested, and the
\* failure path leaves it so.
PollHeadKeepsLock(s) ==
    /\ pollPc[s] = "head"
    /\ \E resp \in Responses(url[s]) :
          /\ HeadReturns(s, resp)
          /\ pollPc' = [pollPc EXCEPT ![s] = AfterProbe(isTagged(resp))]
          /\ mu' = [mu EXCEPT ![s].pending = ~isTagged(resp)]
    /\ UNCHANGED <<serverFields, yes, log, hitCount, pollCount, srvVars>>

\* http.Head returns; isTagged records a transport error and returns, and
\* poll's loop condition is decided.
PollHead(s) ==
    /\ pollPc[s] = "head"
    /\ \E resp \in Responses(url[s]) :
          /\ HeadReturns(s, resp)
          /\ pollPc' = [pollPc EXCEPT ![s] = AfterProbe(isTagged(resp))]
    /\ UNCHANGED <<serverFields, yes, mu, log, hitCount, pollCount, srvVars>>

\* pollSleep(s.period) is called and returns.
PollSleep(s) ==
    /\ pollPc[s] = "sleep"
    /\ log' = [log EXCEPT ![s] = Append(@, <<"sleep", SleepArg(s)>>)]
    /\ pollPc' = [pollPc EXCEPT ![s] = "loop"]
    /\ lastResp' = [lastResp EXCEPT ![s] = NoResp]
    /\ UNCHANGED <<serverFields, yes, mu, okCount, failCount,
                   counters, srvVars>>

\* s.mu.Lock() is called: the writer announces itself.
PollLock(s) ==
    /\ pollPc[s] = "lock"
    /\ mu' = [mu EXCEPT ![s].pending = TRUE]
    /\ pollPc' = [pollPc EXCEPT ![s] = "locking"]
    /\ lastResp' = [lastResp EXCEPT ![s] = NoResp]
    /\ UNCHANGED <<serverFields, yes, okCount, failCount, log,
                   counters, srvVars>>

\* s.mu.Lock() returns once the readers have left.
PollLockAcquire(s) ==
    /\ pollPc[s] = "locking"
    /\ CanLock(mu[s])
    /\ mu' = [mu EXCEPT ![s].pending = FALSE, ![s].writer = TRUE]
    /\ pollPc' = [pollPc EXCEPT ![s] = "write"]
    /\ UNCHANGED <<serverFields, yes, lastResp, okCount, failCount, log,
                   counters, srvVars>>

\* Mutant of WrittenYes.
WrittenYesFalse == FALSE

\* The value poll assigns to s.yes.
WrittenYes == TRUE

\* Mutant of PollWrite: pollDone is called inside the critical section.
PollWriteCallsDone(s) ==
    /\ pollPc[s] = "write"
    /\ yes' = [yes EXCEPT ![s] = WrittenYes]
    /\ log' = [log EXCEPT ![s] = Append(@, <<"done">>)]
    /\ pollPc' = [pollPc EXCEPT ![s] = "unlock"]
    /\ UNCHANGED <<serverFields, mu, lastResp, okCount, failCount,
                   counters, srvVars>>

PollWrite(s) ==
    /\ pollPc[s] = "write"
    /\ yes' = [yes EXCEPT ![s] = WrittenYes]
    /\ pollPc' = [pollPc EXCEPT ![s] = "unlock"]
    /\ UNCHANGED <<serverFields, mu, lastResp, okCount, failCount, log,
                   counters, srvVars>>

\* Mutant of Unlocked: the write lock is not released.
UnlockedNot(m) == m

\* The RWMutex after s.mu.Unlock().
Unlocked(m) == [m EXCEPT !.writer = FALSE]

PollUnlock(s) ==
    /\ pollPc[s] = "unlock"
    /\ mu' = [mu EXCEPT ![s] = Unlocked(@)]
    /\ pollPc' = [pollPc EXCEPT ![s] = "done"]
    /\ UNCHANGED <<serverFields, yes, lastResp, okCount, failCount, log,
                   counters, srvVars>>

\* Mutant of PollDone: poll starts over instead of returning.
PollDoneRestart(s) ==
    /\ pollPc[s] = "done"
    /\ log' = [log EXCEPT ![s] = Append(@, <<"done">>)]
    /\ pollPc' = [pollPc EXCEPT ![s] = "loop"]
    /\ UNCHANGED <<serverFields, yes, mu, lastResp, okCount, failCount,
                   counters, srvVars>>

\* pollDone() is called and poll returns.
PollDone(s) ==
    /\ pollPc[s] = "done"
    /\ log' = [log EXCEPT ![s] = Append(@, <<"done">>)]
    /\ pollPc' = [pollPc EXCEPT ![s] = "exited"]
    /\ UNCHANGED <<serverFields, yes, mu, lastResp, okCount, failCount,
                   counters, srvVars>>

\* ------------------------------------------------------------- ServeHTTP
\* Mutant of ServeHit: the hit is counted once the read lock can be taken.
ServeHitAfterLock(r, s) ==
    /\ srvPc[r] = "idle"
    /\ r = hitCount + 1
    /\ CanRLock(mu[s])
    /\ hitCount < MaxHits
    /\ hitCount' = hitCount + 1
    /\ srvOf' = [srvOf EXCEPT ![r] = s]
    /\ srvPc' = [srvPc EXCEPT ![r] = "rlock"]
    /\ UNCHANGED <<serverFields, yes, mu, pollVars, pollCount, pollError,
                   pollErrorCount, reads, data>>

\* A request arrives for Server s: hitCount.Add(1).
ServeHit(r, s) ==
    /\ srvPc[r] = "idle"
    /\ r = hitCount + 1
    /\ hitCount < MaxHits
    /\ hitCount' = hitCount + 1
    /\ srvOf' = [srvOf EXCEPT ![r] = s]
    /\ srvPc' = [srvPc EXCEPT ![r] = "rlock"]
    /\ UNCHANGED <<serverFields, yes, mu, pollVars, pollCount, pollError,
                   pollErrorCount, reads, data>>

\* Mutant of ServeRLock: one lock for all Servers.
ServeRLockGlobal(r) ==
    /\ srvPc[r] = "rlock"
    /\ \A s \in ServerIds : CanRLock(mu[s])
    /\ mu' = [mu EXCEPT ![srvOf[r]].readers = @ \cup {r}]
    /\ srvPc' = [srvPc EXCEPT ![r] = "read"]
    /\ UNCHANGED <<serverFields, yes, pollVars, counters, reads, srvOf, data>>

\* s.mu.RLock() returns.
ServeRLock(r) ==
    /\ srvPc[r] = "rlock"
    /\ CanRLock(mu[srvOf[r]])
    /\ mu' = [mu EXCEPT ![srvOf[r]].readers = @ \cup {r}]
    /\ srvPc' = [srvPc EXCEPT ![r] = "read"]
    /\ UNCHANGED <<serverFields, yes, pollVars, counters, reads, srvOf, data>>

\* The values a load of s.yes can produce: the field's value, or, when the
\* load races with the writer, anything.
LoadYes(s) ==
    IF mu[s].writer THEN {TRUE, FALSE, Torn} ELSE {yes[s]}

\* The struct literal is evaluated: s.url, s.version and s.yes are read.
ServeRead(r) ==
    /\ srvPc[r] = "read"
    /\ \E y \in LoadYes(srvOf[r]) :
          data' = [data EXCEPT ![r] = [URL |-> url[srvOf[r]],
                                       Version |-> version[srvOf[r]],
                                       Yes |-> y]]
    /\ reads' = reads + 1
    /\ srvPc' = [srvPc EXCEPT ![r] = "runlock"]
    /\ UNCHANGED <<serverFields, yes, mu, pollVars, counters, srvOf>>

\* s.mu.RUnlock().
ServeRUnlock(r) ==
    /\ srvPc[r] = "runlock"
    /\ mu' = [mu EXCEPT ![srvOf[r]].readers = @ \ {r}]
    /\ srvPc' = [srvPc EXCEPT ![r] = "execute"]
    /\ UNCHANGED <<serverFields, yes, pollVars, counters, reads, srvOf, data>>

\* tmpl.Execute(w, data) runs (an error is only logged) and ServeHTTP
\* returns; its receiver and its local data go with it.
ServeExecute(r) ==
    /\ srvPc[r] = "execute"
    /\ srvPc' = [srvPc EXCEPT ![r] = "returned"]
    /\ data' = [data EXCEPT ![r] = NoData]
    /\ srvOf' = [srvOf EXCEPT ![r] = 1]
    /\ UNCHANGED <<serverFields, yes, mu, pollVars, counters, reads>>

\* -------------------------------------------------------------- behaviour
Next ==
    \/ \E s \in ServerIds : NewServer(s)
    \/ \E s \in servers : PollCall(s)
    \/ \E s \in servers : PollHead(s)
    \/ \E s \in servers : PollSleep(s)
    \/ \E s \in servers : PollLock(s)
    \/ \E s \in servers : PollLockAcquire(s)
    \/ \E s \in servers : PollWrite(s)
    \/ \E s \in servers : PollUnlock(s)
    \/ \E s \in servers : PollDone(s)
    \/ \E r \in Readers, s \in servers : ServeHit(r, s)
    \/ \E r \in Readers : ServeRLock(r)
    \/ \E r \in Readers : ServeRead(r)
    \/ \E r \in Readers : ServeRUnlock(r)
    \/ \E r \in Readers : ServeExecute(r)

Spec == Init /\ [][Next]_vars

\* A process that constructs two Servers.
TwoInit ==
    /\ InitWith(ServerIds)
    /\ \A s \in ServerIds : url[s] = "tagURL" /\ period[s] = DefaultPollPeriod

TwoSpec == TwoInit /\ [][Next]_vars

\* Goroutines that can run do run: the lock, the write, the unlock, the
\* hooks and the steps of a ServeHTTP call are taken when they stay
\* possible. Nothing makes a HEAD request return or a request arrive.
Fairness ==
    /\ \A s \in ServerIds :
          /\ WF_vars(PollSleep(s))
          /\ WF_vars(PollLock(s))
          /\ WF_vars(PollLockAcquire(s))
          /\ WF_vars(PollWrite(s))
          /\ WF_vars(PollUnlock(s))
          /\ WF_vars(PollDone(s))
    /\ \A r \in Readers :
          /\ WF_vars(ServeRLock(r))
          /\ WF_vars(ServeRead(r))
          /\ WF_vars(ServeRUnlock(r))
          /\ WF_vars(ServeExecute(r))

FairSpec == Spec /\ Fairness

TypeOK ==
    /\ servers \subseteq ServerIds
    /\ yes \in [ServerIds -> BOOLEAN]
    /\ \A s \in ServerIds :
          /\ mu[s].readers \subseteq Readers
          /\ mu[s].writer \in BOOLEAN
          /\ mu[s].pending \in BOOLEAN
    /\ pollCount \in 0..MaxPolls
    /\ hitCount \in 0..MaxHits

\* ----------------------------------------------------------------- helpers
Holding(r) == srvPc[r] \in {"read", "runlock"}

HasRead(r) == srvPc[r] \in {"runlock", "execute"}

Calls(s, name) == {i \in 1..Len(log[s]) : log[s][i][1] = name}

\* ------------------------------------------------------------------ claims
\* C1: once yes is true it is true in every later state; the only change
\* of yes is from false to true.
C1_Monotonic ==
    [][\A s \in ServerIds :
          /\ yes[s] => yes'[s]
          /\ yes'[s] # yes[s] => (yes[s] = FALSE /\ yes'[s] = TRUE)]_vars

\* A read has seen true after the write, with the loop finished.
C1_Witness ==
    \E r \in Readers :
        /\ HasRead(r)
        /\ data[r].Yes = TRUE
        /\ yes[srvOf[r]]
        /\ pollPc[srvOf[r]] = "exited"

\* C2: before the first probe answered 200 OK, yes is false and every read
\* has captured false, whatever the number of readers and failed probes.
C2_FalseBeforeSuccess ==
    \A s \in ServerIds :
        okCount[s] = 0 =>
            /\ yes[s] = FALSE
            /\ \A r \in Readers :
                  (HasRead(r) /\ srvOf[r] = s) => data[r].Yes = FALSE

\* Two readers have read concurrently after failed probes and no success.
C2_Witness ==
    /\ okCount[1] = 0
    /\ failCount[1] >= 2
    /\ \A r \in Readers : srvPc[r] = "runlock" /\ data[r].Yes = FALSE

\* C3: a probe answered 200 OK leads to yes being true, and a read made
\* under a read lock taken after the writer's unlock captures true.
C3_EventuallyTrue ==
    /\ \A s \in ServerIds : (okCount[s] > 0) ~> yes[s]
    /\ [][\A r \in Readers :
             (/\ srvPc[r] = "read"
              /\ srvPc'[r] = "runlock"
              /\ pollPc[srvOf[r]] \in {"done", "exited"})
                 => data'[r].Yes = TRUE]_vars

\* A reader arrived while the writer was at work and read true afterwards.
C3_Witness ==
    \E r \in Readers :
        /\ srvPc[r] = "runlock"
        /\ data[r].Yes = TRUE
        /\ pollPc[srvOf[r]] \in {"done", "exited"}
        /\ failCount[srvOf[r]] >= 1
        /\ hitCount >= 2

\* The calls poll has made, when N probes failed and one then succeeded:
\* probe, sleep(period), probe, ..., sleep(period), probe, done.
ExpectedLog(s, n) ==
    [i \in 1..(2 * n + 2) |->
        IF i = 2 * n + 2 THEN <<"done">>
        ELSE IF i % 2 = 1 THEN <<"probe">>
        ELSE <<"sleep", period[s]>>]

\* C4: with N failures and then a success, pollDone is called exactly
\* once, after exactly N+1 probes, with one pollSleep(period) between two
\* consecutive probes (N sleeps); pollDone is not called before that.
C4_HookOnceAfterNPlusOne ==
    \A s \in ServerIds :
        /\ pollPc[s] = "exited" =>
              /\ okCount[s] = 1
              /\ log[s] = ExpectedLog(s, failCount[s])
              /\ Cardinality(Calls(s, "done")) = 1
              /\ Cardinality(Calls(s, "probe")) = failCount[s] + 1
              /\ Cardinality(Calls(s, "sleep")) = failCount[s]
        /\ pollPc[s] # "exited" => Calls(s, "done") = {}

\* The loop has finished after a failure and a success.
C4_Witness ==
    /\ pollPc[1] = "exited"
    /\ failCount[1] = 1
    /\ period[1] # DefaultPollPeriod

\* C5: while every probe has failed, yes is false, the write and pollDone
\* have not happened, and the loop goes round probe and sleep: after a
\* failure it sleeps, after the sleep it probes again.
C5_AllFailNeverTerminates ==
    /\ [](\A s \in servers :
            okCount[s] = 0 =>
                /\ yes[s] = FALSE
                /\ pollPc[s] \in {"loop", "head", "sleep"}
                /\ Calls(s, "done") = {}
                /\ Cardinality(Calls(s, "probe")) =
                      failCount[s] + (IF pollPc[s] = "head" THEN 1 ELSE 0)
                /\ pollPc[s] = "sleep" => ENABLED PollSleep(s)
                /\ (pollPc[s] = "loop" /\ pollCount < MaxPolls)
                      => ENABLED PollCall(s)
                /\ pollPc[s] = "head" => ENABLED PollHead(s))
    /\ [][\A s \in ServerIds :
             (s \in servers /\ okCount'[s] = 0 /\ pollPc'[s] # pollPc[s]) =>
                 \/ pollPc[s] = "loop" /\ pollPc'[s] = "head"
                 \/ pollPc[s] = "head" /\ pollPc'[s] = "sleep"
                 \/ pollPc[s] = "sleep" /\ pollPc'[s] = "loop"]_vars

\* Every probe so far has failed, as many as the model allows, and the
\* loop is about to probe again.
C5_Witness ==
    /\ okCount[1] = 0
    /\ failCount[1] = MaxPolls
    /\ pollPc[1] = "loop"
    /\ yes[1] = FALSE

\* C6: the duration of every sleep between two probes is positive, also
\* when the configured period is zero or negative.
C6_SleepPositive ==
    \A s \in ServerIds :
        \A i \in Calls(s, "sleep") : log[s][i][2] > 0

\* C7: yes is written with the write lock held and read with the read
\* lock held, no reader holds the read lock while the writer holds the
\* write lock, and every value read is exactly true or exactly false.
C7_LockDiscipline ==
    /\ \A s \in ServerIds :
          /\ ~(mu[s].writer /\ mu[s].readers # {})
          /\ pollPc[s] \in {"write", "unlock"} <=> mu[s].writer
          /\ mu[s].readers = {r \in Readers : Holding(r) /\ srvOf[r] = s}
    /\ \A r \in Readers : HasRead(r) => data[r].Yes \in BOOLEAN

\* One reader holds the read lock while the writer waits for it and a
\* second reader waits behind the writer.
C7_Witness ==
    \E r1, r2 \in Readers :
        /\ srvPc[r1] = "read"
        /\ srvPc[r2] = "rlock"
        /\ pollPc[1] = "locking"
        /\ mu[1].readers = {r1}

\* C8: every ServeHTTP call that has started takes the read lock, reads
\* and returns, whatever poll is doing and whatever the other calls do.
C8_ReadCompletes ==
    \A r \in Readers : (srvPc[r] = "rlock") ~> (srvPc[r] = "returned")

\* A call waits for the read lock while the writer holds the lock and the
\* other call has already been served.
C8_Witness ==
    \E r \in Readers :
        /\ srvPc[r] = "rlock"
        /\ mu[srvOf[r]].writer
        /\ hitCount >= 2

\* C9: a probe answered with a status other than 200 OK ends like a probe
\* with a transport error: isTagged returns false, so yes and the lock are
\* left as they are and the loop goes to its sleep, from which it retries.
C9_NonOKIsFailure ==
    [][\A s \in ServerIds :
          (pollPc[s] = "head" /\ pollPc'[s] # "head" /\ ~IsOK(lastResp'[s]))
              => /\ ~isTagged(lastResp'[s])
                 /\ pollPc'[s] = "sleep"
                 /\ yes' = yes
                 /\ mu' = mu
                 /\ okCount'[s] = 0]_vars

\* A probe was answered 204 after one that hit a transport error, and the
\* loop is at its sleep.
C9_Witness ==
    /\ lastResp[1].err = NoErr
    /\ lastResp[1].status = 204
    /\ pollErrorCount = 1
    /\ pollPc[1] = "sleep"
    /\ yes[1] = FALSE

\* C10: a failed probe changes neither yes, nor the lock, nor url, version
\* and period, nor anything a ServeHTTP call holds; what a call captures is
\* the url, the version and the boolean yes, nothing of the failure.
C10_FailureAbsorbed ==
    /\ [](\A r \in Readers :
            HasRead(r) =>
                /\ data[r].Yes \in BOOLEAN
                /\ data[r].Yes = yes[srvOf[r]] \/ pollPc[srvOf[r]] # "sleep"
                /\ data[r].URL = url[srvOf[r]]
                /\ data[r].Version = version[srvOf[r]])
    /\ [][\A s \in ServerIds :
             (pollPc[s] = "head" /\ failCount'[s] # failCount[s])
                 => UNCHANGED <<servers, version, url, period, yes, mu,
                                srvPc, srvOf, data>>]_vars

\* A call holds what it read while the probes fail with a transport error.
C10_Witness ==
    \E r \in Readers :
        /\ HasRead(r)
        /\ data[r].Yes = FALSE
        /\ pollPc[srvOf[r]] = "sleep"
        /\ lastResp[srvOf[r]].err = "timeout"
        /\ pollError = "timeout"

\* The sum of f over the Server instances in S.
RECURSIVE SumOver(_, _)
SumOver(f, S) ==
    IF S = {} THEN 0
    ELSE LET x == CHOOSE y \in S : TRUE
         IN  f[x] + SumOver(f, S \ {x})

\* The probe attempts poll has started, and those http.Head has returned from.
Started == SumOver([s \in ServerIds |-> Cardinality(Calls(s, "probe"))], ServerIds)

Completed == SumOver([s \in ServerIds |-> okCount[s] + failCount[s]], ServerIds)

\* C11: when every probe fails with a transport error (the URL of every
\* Server does not parse), pollErrorCount is the number of completed probe
\* attempts and pollCount the number of started ones.
C11_ErrorCountedPerAttempt ==
    (\A s \in servers \cup mainTodo : url[s] = "%malformed") =>
        /\ pollErrorCount = Completed
        /\ pollCount = Started
        /\ Started - Completed = Cardinality({s \in servers : pollPc[s] = "head"})

\* One attempt has failed with a transport error and a second is in flight.
C11_Witness ==
    /\ url[1] = "%malformed"
    /\ pollErrorCount = 1
    /\ pollCount = 2
    /\ pollPc[1] = "head"

\* C12: no step lowers pollCount, pollErrorCount or hitCount; a probe
\* attempt adds exactly 1 to pollCount and a ServeHTTP call exactly 1 to
\* hitCount, and nothing else changes them.
C12_CountersMonotonic ==
    [][/\ pollCount' >= pollCount
       /\ pollErrorCount' >= pollErrorCount
       /\ hitCount' >= hitCount
       /\ \A s \in ServerIds :
             (pollPc[s] = "loop" /\ pollPc'[s] = "head")
                 => pollCount' = pollCount + 1
       /\ pollCount' # pollCount =>
             \E s \in servers : pollPc[s] = "loop" /\ pollPc'[s] = "head"
       /\ \A r \in Readers :
             (srvPc[r] = "idle" /\ srvPc'[r] # "idle")
                 => hitCount' = hitCount + 1
       /\ hitCount' # hitCount =>
             \E r \in Readers : srvPc[r] = "idle" /\ srvPc'[r] = "rlock"]_vars

\* The counters have counted an error, a success after it and two calls.
C12_Witness ==
    /\ pollCount = 2
    /\ pollErrorCount = 1
    /\ okCount[1] = 1
    /\ hitCount = 2

\* C13: NewServer starts poll as a task of its own and returns without
\* waiting for it: a Server has been returned exactly when its poll loop
\* has been started, NewServer can return whatever the probes do, and the
\* loop of a Server is started by NewServer alone, once.
C13_ConstructionStartsOneLoop ==
    /\ [](\A s \in ServerIds :
            /\ s \in servers <=> pollPc[s] # "none"
            /\ s \in mainTodo => (s \notin servers /\ ENABLED NewServer(s))
            /\ s \notin servers => (log[s] = <<>> /\ yes[s] = FALSE))
    /\ [][\A s \in ServerIds :
             /\ (pollPc[s] = "none" /\ pollPc'[s] # "none")
                   => (s \notin servers /\ s \in servers' /\ pollPc'[s] = "loop")
             /\ pollPc[s] # "none" => pollPc'[s] # "none"
             /\ s \in servers => (s \in servers' /\ s \notin mainTodo')]_vars

\* The Server has been returned and serves a request while its first probe
\* has not come back.
C13_Witness ==
    \E r \in Readers :
        /\ srvOf[r] \in servers
        /\ srvPc[r] = "runlock"
        /\ pollPc[srvOf[r]] = "head"
        /\ Completed = 0

\* C14: poll holds no lock while it probes or sleeps: the write lock is
\* neither held nor requested then, so a ServeHTTP call can take the read
\* lock; the write lock is held only around the assignment to yes.
C14_NoLockWhileProbing ==
    /\ \A s \in ServerIds :
          /\ pollPc[s] \in {"loop", "head", "sleep"}
                => (~mu[s].writer /\ ~mu[s].pending)
          /\ mu[s].writer => pollPc[s] \in {"write", "unlock"}
          /\ mu[s].pending => pollPc[s] = "locking"
    /\ \A r \in Readers :
          (srvPc[r] = "rlock" /\ pollPc[srvOf[r]] \in {"loop", "head", "sleep"})
              => ENABLED ServeRLock(r)

\* Both calls hold the read lock while a probe is in flight after a failed
\* one.
C14_Witness ==
    /\ pollPc[1] = "head"
    /\ failCount[1] = 1
    /\ mu[1].readers = Readers

\* C15: after the successful probe poll takes the lock, sets yes, releases
\* the lock and only then calls pollDone: when pollDone runs and ever
\* after, yes is true and poll holds no lock, and a read made after the
\* hook captures true.
C15_HookAfterUnlock ==
    /\ [](\A s \in ServerIds :
            /\ pollPc[s] \in {"done", "exited"}
                  => (yes[s] /\ ~mu[s].writer /\ ~mu[s].pending)
            /\ Calls(s, "done") # {}
                  => (yes[s] /\ ~mu[s].writer /\ pollPc[s] = "exited"))
    /\ [][\A s \in ServerIds :
             /\ (pollPc'[s] = "locking" /\ pollPc[s] # "locking")
                   => (pollPc[s] = "lock" /\ IsOK(lastResp[s]))
             /\ (pollPc'[s] = "write" /\ pollPc[s] # "write")
                   => pollPc[s] = "locking"
             /\ (pollPc'[s] = "unlock" /\ pollPc[s] # "unlock")
                   => (pollPc[s] = "write" /\ yes'[s])
             /\ (pollPc'[s] = "done" /\ pollPc[s] # "done")
                   => (pollPc[s] = "unlock" /\ ~mu'[s].writer)
             /\ Calls(s, "done")' # Calls(s, "done")
                   => (pollPc[s] = "done" /\ yes[s] /\ ~mu[s].writer)]_vars
    /\ [][\A r \in Readers :
             (/\ srvPc[r] = "read"
              /\ srvPc'[r] = "runlock"
              /\ Calls(srvOf[r], "done") # {})
                 => data'[r].Yes = TRUE]_vars

\* pollDone has run and a call has read true.
C15_Witness ==
    \E r \in Readers :
        /\ srvPc[r] = "execute"
        /\ data[r].Yes = TRUE
        /\ Calls(srvOf[r], "done") # {}
        /\ reads = 1

\* C16: yes is assigned only by poll's write, at most once, never by a
\* ServeHTTP call; after the write poll only unlocks, calls pollDone and
\* returns: no further probe, sleep or write.
C16_WrittenOnceByPoll ==
    [][/\ \A s \in ServerIds :
             /\ yes'[s] # yes[s]
                   => (pollPc[s] = "write" /\ pollPc'[s] = "unlock" /\ mu[s].writer)
             /\ pollPc[s] \in {"unlock", "done", "exited"}
                   => /\ pollPc'[s] \in {"unlock", "done", "exited"}
                      /\ yes'[s] = yes[s]
                      /\ Calls(s, "probe")' = Calls(s, "probe")
                      /\ Calls(s, "sleep")' = Calls(s, "sleep")
             /\ pollPc[s] = "exited"
                   => (pollPc'[s] = "exited" /\ log'[s] = log[s])
       /\ (\E r \in Readers : srvPc'[r] # srvPc[r]) => yes' = yes]_vars

\* poll has returned and two calls have been served since construction.
C16_Witness ==
    /\ pollPc[1] = "exited"
    /\ yes[1]
    /\ reads = 2
    /\ \A r \in Readers : srvPc[r] = "returned"

\* C17: poll sleeps only after a failed probe: each sleep comes right
\* after a probe and is a pollSleep(period), each probe but the first comes
\* right after a sleep, the sleeps are as many as the failed probes that
\* poll has got past, and no sleep follows the successful probe.
C17_SleepOnlyAfterFailure ==
    \A s \in ServerIds :
        LET L == log[s] IN
        /\ Len(L) > 0 => L[1] = <<"probe">>
        /\ \A i \in 1..Len(L) :
              /\ L[i][1] = "sleep"
                    => (i > 1 /\ L[i-1] = <<"probe">>
                          /\ L[i] = <<"sleep", period[s]>>)
              /\ (L[i] = <<"probe">> /\ i > 1) => L[i-1][1] = "sleep"
              /\ L[i] = <<"done">> => (i > 1 /\ L[i-1] = <<"probe">>)
        /\ Cardinality(Calls(s, "sleep")) =
              failCount[s] - (IF pollPc[s] = "sleep" THEN 1 ELSE 0)
        /\ okCount[s] > 0 =>
              /\ Cardinality(Calls(s, "sleep")) = failCount[s]
              /\ Cardinality(Calls(s, "probe")) = failCount[s] + 1

\* One probe failed, poll slept once for a zero period, and the second
\* probe succeeded.
C17_Witness ==
    /\ log[1] = <<<<"probe">>, <<"sleep", 0>>, <<"probe">>>>
    /\ okCount[1] = 1
    /\ pollPc[1] = "lock"

\* C18: the error diagnostics record transport errors only:
\* pollErrorCount never exceeds pollCount, a probe answered with a status
\* (200 OK or not) leaves pollErrorCount and pollError as they are, and
\* pollError keeps the last transport error and is never cleared.
C18_ErrorsAreTransportOnly ==
    /\ [](/\ pollErrorCount <= pollCount
          /\ pollErrorCount <= Completed
          /\ pollErrorCount > 0 <=> pollError \in ErrMsgs
          /\ pollErrorCount = 0 <=> pollError = "")
    /\ [][\A s \in ServerIds :
             (pollPc[s] = "head" /\ pollPc'[s] # "head") =>
                 IF lastResp'[s].err = NoErr
                 THEN UNCHANGED <<pollError, pollErrorCount>>
                 ELSE /\ pollError' = lastResp'[s].err
                      /\ pollErrorCount' = pollErrorCount + 1]_vars
    /\ [][/\ pollError # "" => pollError' # ""
          /\ (\A s \in ServerIds : pollPc[s] = "head" => pollPc'[s] = "head")
                => UNCHANGED <<pollError, pollErrorCount>>]_vars

\* A probe failed with a transport error, the next was answered 200 OK and
\* yes is true: the error message and its count are still there.
C18_Witness ==
    /\ yes[1]
    /\ pollError = "refused"
    /\ pollErrorCount = 1
    /\ pollCount = 2

\* The ServeHTTP calls that have counted their hit and not yet read yes.
InFlight == {r \in Readers : srvPc[r] \in {"rlock", "read"}}

\* C19: two Servers in one process have each their own yes and lock: a
\* step of one Server's poll leaves the other Server's yes, lock and loop
\* as they are, a read of one Server does not wait for the other's lock
\* and captures its own Server's yes; the counters are shared and hold the
\* sums over both Servers.
C19_InstancesIndependent ==
    /\ [](/\ pollCount = Started
          /\ pollErrorCount <= Completed
          /\ hitCount = reads + Cardinality(InFlight)
          /\ \A r \in Readers :
                (srvPc[r] = "rlock" /\ CanRLock(mu[srvOf[r]]))
                    => ENABLED ServeRLock(r)
          /\ \A s \in ServerIds :
                mu[s].readers = {r \in Readers : Holding(r) /\ srvOf[r] = s})
    /\ [][\A s, t \in ServerIds :
             (s # t /\ (pollPc'[s] # pollPc[s] \/ yes'[s] # yes[s])) =>
                 /\ yes'[t] = yes[t]
                 /\ mu'[t] = mu[t]
                 /\ pollPc'[t] = pollPc[t]
                 /\ log'[t] = log[t]]_vars
    /\ [][\A r \in Readers :
             (srvPc[r] = "read" /\ srvPc'[r] = "runlock")
                 => data'[r].Yes = yes[srvOf[r]]]_vars

\* One Server holds its write lock with yes set while a call holds the
\* read lock of the other Server, whose probe is in flight.
C19_Witness ==
    /\ servers = ServerIds
    /\ mu[1].writer
    /\ yes[1]
    /\ ~yes[2]
    /\ mu[2].readers # {}
    /\ pollPc[2] = "head"
    /\ pollCount = 2

\* C20: hitCount is incremented before the read lock is taken: it is the
\* number of ServeHTTP calls started, never less than the reads of yes
\* made, and a call counts its hit whether yes is false or true and
\* whether or not the writer holds the lock.
C20_HitCountedBeforeLock ==
    /\ hitCount = reads + Cardinality(InFlight)
    /\ hitCount >= reads
    /\ \A r \in Readers :
          /\ srvPc[r] = "rlock" => r \notin mu[srvOf[r]].readers
          /\ \A s \in servers :
                (r = hitCount + 1 /\ hitCount < MaxHits)
                    => ENABLED ServeHit(r, s)

\* A call has counted its hit and waits while the writer holds the lock
\* with yes already true.
C20_Witness ==
    \E r \in Readers :
        /\ srvPc[r] = "rlock"
        /\ pollPc[srvOf[r]] = "unlock"
        /\ yes[srvOf[r]]
        /\ hitCount = 1
        /\ reads = 0

====
